---------------------------- MODULE Spec2Model ----------------------------
(***************************************************************************)
(* A model of jedi/inference/value/klass.py: the class model of the        *)
(* inference engine (bases, method resolution order, metaclasses, class    *)
(* body filters, generics).                                                *)
(*                                                                         *)
(* Classes are numbered; 0 is builtins.object.  A class declaration is its *)
(* name, whether it lives in the builtins module, and its base-argument    *)
(* list.  A lazy value is modelled by the sequence of values infer()       *)
(* iterates over.                                                          *)
(*                                                                         *)
(* Spec          py__mro__, a generator, step by step under its cache      *)
(* BasesSpec     py__bases__ on class declarations                         *)
(* MetaSpec      get_metaclasses under its cache, on class graphs          *)
(* AccessSpec    ClassFilter._access_possible and ClassFilter._filter      *)
(* GenericsSpec  list_type_vars and define_generics                        *)
(* FiltersSpec   get_filters                                               *)
(***************************************************************************)
EXTENDS Integers, Sequences, FiniteSets, TLC

\* ------------------------------------------------------------------ bounds
NumClasses == 3
MaxBases == 2
MaxInfer == 2
MaxEdges == 3
MaxQueries == 2
MaxMetaEdges == 4

\* ------------------------------------------------------------------ values
\* builtins.object, the universal root
Root == 0
\* a value without py__mro__ (a function, a literal)
NotAClass == -1
\* the cache's marker for a generator that is being advanced
RecursionSentinel == -2

SourceClasses == 1..NumClasses
ClassIds == {Root} \cup SourceClasses
Values == ClassIds \cup {NotAClass}

NoKey == "None"

Range(f) == {f[i] : i \in DOMAIN f}
Last(s) == s[Len(s)]
Front(s) == SubSeq(s, 1, Len(s) - 1)

RECURSIVE Concat(_)
Concat(ss) == IF ss = <<>> THEN <<>> ELSE Head(ss) \o Concat(Tail(ss))

RECURSIVE SelectKeys(_, _)
\* the lazy values of the (key, value) pairs whose key is k, in order
SelectKeys(pairs, k) ==
    IF pairs = <<>> THEN <<>>
    ELSE IF Head(pairs)[1] = k
         THEN <<Head(pairs)[2]>> \o SelectKeys(Tail(pairs), k)
         ELSE SelectKeys(Tail(pairs), k)

\* ------------------------------------------------------------ declarations
RootDecl == [name |-> "object", in_builtins |-> TRUE, arglist |-> <<>>]

KwArg(k, vs) == [key |-> k, stars |-> 0, values |-> vs]

PosArg(vs) == KwArg(NoKey, vs)

RECURSIVE unpack(_)
\* TreeArguments.unpack: (key, lazy value) pairs; a starred argument gives none
unpack(arglist) ==
    IF arglist = <<>> THEN <<>>
    ELSE LET a == Head(arglist) IN
         IF a.stars > 0 THEN unpack(Tail(arglist))
         ELSE <<(<<a.key, a.values>>)>> \o unpack(Tail(arglist))

\* ClassValue._get_bases_arguments: None (here <<>>) without an argument list
_get_bases_arguments(d) == d.arglist

IsRootDecl(d) == d.name = "object" /\ d.in_builtins

\* mutant: the keyword arguments are bases too
py__bases___AnyKey(d) ==
    LET args == _get_bases_arguments(d)
        pairs == unpack(args)
        lst == [i \in DOMAIN pairs |-> pairs[i][2]]
    IN IF args # <<>> /\ lst # <<>> THEN lst
       ELSE IF IsRootDecl(d) THEN <<>>
       ELSE << <<Root>> >>

\* ClassValue.py__bases__
py__bases__(d) ==
    LET args == _get_bases_arguments(d)
        lst == SelectKeys(unpack(args), NoKey)
    IN IF args # <<>> /\ lst # <<>> THEN lst
       ELSE IF IsRootDecl(d) THEN <<>>
       ELSE << <<Root>> >>

\* mutant: the bases are walked right to left
FlatBases_Reversed(G, c) ==
    LET f == Concat(py__bases__(G[c]))
    IN [i \in 1..Len(f) |-> f[Len(f) + 1 - i]]

\* the values py__mro__ meets, base after base, value after value
FlatBases(G, c) == Concat(py__bases__(G[c]))

\* ------------------------------------------------------------------- state
\* classes: the class declarations; m: the computation of py__mro__ and its
\* cache; sm: the same computation on the graph stripped of non-class values;
\* cache: the memo of get_metaclasses; input: the arguments of the call a
\* caller is about to make, or the number of queries made; call: the last call
\* made and its result
VARIABLES classes, m, sm, cache, input, call

vars == <<classes, m, sm, cache, input, call>>

NO_VALUES == {}

NoCall == [op |-> "none"]

\* no key is memoized
EmptyCache == [c \in ClassIds |-> [cached |-> FALSE, vals |-> NO_VALUES]]

NewFrame == [st |-> "new", mro |-> <<>>, k |-> 1, wi |-> 0]

InitMachine ==
    [memo |-> [c \in ClassIds |-> <<>>],
     frame |-> [c \in ClassIds |-> NewFrame],
     stack |-> <<>>,
     pc |-> "idle",
     nq |-> 0,
     steps |-> 0,
     q |-> [target |-> Root, i |-> 0, result |-> <<>>, done |-> FALSE]]

Min(a, b) == IF a <= b THEN a ELSE b

RECURSIVE ArgSeqs(_, _)
\* the lists of n positional arguments that infer to t values in all, each to
\* 1..MaxInfer of them
ArgSeqs(n, t) ==
    IF n = 0 THEN (IF t = 0 THEN {<<>>} ELSE {})
    ELSE UNION {{<<PosArg(vs)>> \o r : vs \in [1..j -> Values], r \in ArgSeqs(n - 1, t - j)} :
                j \in 1..Min(t, MaxInfer)}

\* the argument lists of a kind whose lazy values infer to k values: bases,
\* bases and then a metaclass keyword, or a sole base that infers to nothing
Arglists(kind, k) ==
    IF kind = "bases" THEN UNION {ArgSeqs(n, k) : n \in 0..MaxBases}
    ELSE IF kind = "keyword"
    THEN UNION {{p \o <<KwArg("metaclass", vs)>> :
                    p \in UNION {ArgSeqs(n, k - j) : n \in 0..MaxBases},
                    vs \in [1..j -> Values]} :
                j \in 1..Min(k, MaxInfer)}
    ELSE IF k = 0 THEN {<<PosArg(<<>>)>>} ELSE {}

RECURSIVE DeclSeqs(_, _, _, _)
\* the sequences of n argument lists holding t values in all, none more than
\* cap, the longer lists first: every class graph, up to the numbering of its
\* classes
DeclSeqs(kinds, n, t, cap) ==
    IF n = 0 THEN (IF t = 0 THEN {<<>>} ELSE {})
    ELSE UNION {{<<a>> \o f :
                    a \in UNION {Arglists(kind, k) : kind \in kinds},
                    f \in DeclSeqs(kinds, n - 1, t - k, k)} :
                k \in 0..Min(t, cap)}

\* the class graphs of at most so many edges whose classes take argument lists
\* of these kinds
Graphs(kinds, edges) ==
    {[c \in ClassIds |->
        IF c = Root THEN RootDecl
        ELSE [name |-> "C", in_builtins |-> FALSE, arglist |-> f[c]]] :
     f \in UNION {DeclSeqs(kinds, NumClasses, t, t) : t \in 0..edges}}

Init ==
    /\ classes \in Graphs({"bases", "empty"}, MaxEdges)
    /\ m = InitMachine
    /\ sm = InitMachine
    /\ cache = EmptyCache
    /\ input = NoCall
    /\ call = NoCall

\* --------------------------------------------------------------- py__mro__
Top(s) == s.stack[Len(s.stack)]

\* the class whose mro() the active wrapper iterates, and its position in it
WTarget(G, s) ==
    IF s.stack = <<>> THEN s.q.target
    ELSE FlatBases(G, Top(s))[s.frame[Top(s)].k]

WIndex(s) == IF s.stack = <<>> THEN s.q.i ELSE s.frame[Top(s)].wi

BumpIndex(s) ==
    IF s.stack = <<>> THEN [s EXCEPT !.q.i = @ + 1]
    ELSE [s EXCEPT !.frame[Top(s)].wi = @ + 1]

\* mutant: no membership check
NotInMro_Always(x, mro) == TRUE

\* mutant: only the last element of mro is compared
NotInMro_LastOnly(x, mro) == mro = <<>> \/ x # mro[Len(mro)]

\* line 183: cls_new not in mro
NotInMro(x, mro) == x \notin Range(mro)

\* the consumer of the active wrapper receives x: py__mro__'s inner loop
\* (lines 182-185), or the caller iterating mro()
Deliver(s, x) ==
    IF s.stack = <<>>
    THEN [s EXCEPT !.q.result = Append(@, x), !.pc = "top"]
    ELSE LET c == Top(s) IN
         IF NotInMro(x, s.frame[c].mro)
         THEN [s EXCEPT !.frame[c].mro = Append(@, x), !.pc = "yield"]
         ELSE [s EXCEPT !.pc = "next"]

\* the active wrapper is exhausted: its consumer's for loop ends
WrapperReturn(s) ==
    IF s.stack = <<>>
    THEN [s EXCEPT !.q.done = TRUE, !.pc = "idle"]
    ELSE [s EXCEPT !.frame[Top(s)].k = @ + 1, !.frame[Top(s)].st = "loop",
                   !.pc = "gen"]

\* wrapper: the next element is already materialized
ReplayG(G, s) ==
    /\ s.pc = "next"
    /\ WIndex(s) < Len(s.memo[WTarget(G, s)])
    /\ s.memo[WTarget(G, s)][WIndex(s) + 1] # RecursionSentinel
ReplayF(G, s) == Deliver(BumpIndex(s), s.memo[WTarget(G, s)][WIndex(s) + 1])

\* wrapper: the next element is the marker of a generator being advanced
RecursionStopG(G, s) ==
    /\ s.pc = "next"
    /\ WIndex(s) < Len(s.memo[WTarget(G, s)])
    /\ s.memo[WTarget(G, s)][WIndex(s) + 1] = RecursionSentinel
RecursionStopF(G, s) == WrapperReturn(s)

\* wrapper: past the materialized elements, advance the generator
ResumeG(G, s) ==
    /\ s.pc = "next"
    /\ WIndex(s) = Len(s.memo[WTarget(G, s)])
ResumeF(G, s) ==
    LET t == WTarget(G, s) IN
    [s EXCEPT !.memo[t] = Append(@, RecursionSentinel),
              !.stack = Append(@, t),
              !.pc = "gen"]

\* lines 156-157: mro = [self]; yield self
YieldSelfG(G, s) == s.pc = "gen" /\ s.frame[Top(s)].st = "new"
YieldSelfF(G, s) ==
    [s EXCEPT !.frame[Top(s)].mro = <<Top(s)>>,
              !.frame[Top(s)].st = "loop",
              !.pc = "yield"]

AtValue(G, s) ==
    /\ s.pc = "gen"
    /\ s.frame[Top(s)].st = "loop"
    /\ s.frame[Top(s)].k <= Len(FlatBases(G, Top(s)))

CurValue(G, s) == FlatBases(G, Top(s))[s.frame[Top(s)].k]

\* lines 166-167: only a class has py__mro__
HasMro(v) == v \in ClassIds

\* mutant: the AttributeError ends the walk over the bases
SkipNonClassF_Abort(G, s) ==
    [s EXCEPT !.frame[Top(s)].k = Len(FlatBases(G, Top(s))) + 1]

\* lines 168-180: AttributeError, a warning, the next value
SkipNonClassG(G, s) == AtValue(G, s) /\ ~HasMro(CurValue(G, s))
SkipNonClassF(G, s) == [s EXCEPT !.frame[Top(s)].k = @ + 1]

\* lines 181-182: for cls_new in mro_method()
EnterBaseG(G, s) == AtValue(G, s) /\ HasMro(CurValue(G, s))
EnterBaseF(G, s) ==
    [s EXCEPT !.frame[Top(s)].st = "inner",
              !.frame[Top(s)].wi = 0,
              !.pc = "next"]

\* resumed after yielding an element of a base's mro: the inner loop goes on
ContinueInnerG(G, s) == s.pc = "gen" /\ s.frame[Top(s)].st = "inner"
ContinueInnerF(G, s) == [s EXCEPT !.pc = "next"]

\* line 160: the bases are exhausted, the generator ends
FinishG(G, s) ==
    /\ s.pc = "gen"
    /\ \/ s.frame[Top(s)].st = "fin"
       \/ /\ s.frame[Top(s)].st = "loop"
          /\ s.frame[Top(s)].k > Len(FlatBases(G, Top(s)))
FinishF(G, s) == [s EXCEPT !.frame[Top(s)].st = "fin", !.pc = "stop"]

\* the generator on top yields the last element of its mro list to the
\* wrapper that advanced it, which materializes and passes it on
YieldUpG(G, s) == s.pc = "yield"
YieldUpF(G, s) ==
    LET t == Top(s)
        x == Last(s.frame[t].mro)
        s1 == [s EXCEPT !.memo[t] = Append(Front(@), x),
                        !.stack = Front(@)]
    IN Deliver(BumpIndex(s1), x)

\* the generator on top is exhausted: the wrapper drops the marker and ends
StopUpG(G, s) == s.pc = "stop"
StopUpF(G, s) ==
    LET t == Top(s)
        s1 == [s EXCEPT !.memo[t] = Front(@), !.stack = Front(@)]
    IN WrapperReturn(s1)

\* a caller starts iterating c.py__mro__()
StartG(s) == s.pc = "idle" /\ s.nq < MaxQueries
StartF(s, c) ==
    [s EXCEPT !.q = [target |-> c, i |-> 0, result |-> <<>>, done |-> FALSE],
              !.nq = @ + 1,
              !.steps = 0,
              !.pc = "next"]

\* the steps taken since the caller's query began
Tick(s) == [s EXCEPT !.steps = @ + 1]

\* the class graph in which no base infers to a value that is not a class
Strip(G) ==
    [c \in DOMAIN G |->
        [G[c] EXCEPT !.arglist =
            [i \in DOMAIN @ |-> [@[i] EXCEPT !.values = SelectSeq(@, HasMro)]]]]

Diverged(s) == [s EXCEPT !.pc = "diverged"]

\* one step of the computation; sm takes the same step on the stripped graph
Act(G(_, _), F(_, _)) ==
    /\ G(classes, m)
    /\ m' = Tick(F(classes, m))
    /\ sm' = IF G(Strip(classes), sm) THEN Tick(F(Strip(classes), sm))
             ELSE Diverged(sm)
    /\ UNCHANGED <<classes, cache, input, call>>

ClientStart == \E c \in ClassIds :
    /\ StartG(m)
    /\ m' = StartF(m, c)
    /\ sm' = StartF(sm, c)
    /\ UNCHANGED <<classes, cache, input, call>>
ClientNext ==
    /\ m.pc = "top"
    /\ m' = [m EXCEPT !.pc = "next"]
    /\ sm' = [sm EXCEPT !.pc = "next"]
    /\ UNCHANGED <<classes, cache, input, call>>
ClientAbandon ==
    /\ m.pc = "top"
    /\ m' = [m EXCEPT !.pc = "idle"]
    /\ sm' = [sm EXCEPT !.pc = "idle"]
    /\ UNCHANGED <<classes, cache, input, call>>

Replay == Act(ReplayG, ReplayF)
RecursionStop == Act(RecursionStopG, RecursionStopF)
Resume == Act(ResumeG, ResumeF)
YieldSelf == Act(YieldSelfG, YieldSelfF)
SkipNonClass ==
    /\ SkipNonClassG(classes, m)
    /\ m' = Tick(SkipNonClassF(classes, m))
    /\ UNCHANGED <<classes, sm, cache, input, call>>
EnterBase == Act(EnterBaseG, EnterBaseF)
ContinueInner == Act(ContinueInnerG, ContinueInnerF)
Finish == Act(FinishG, FinishF)
YieldUp == Act(YieldUpG, YieldUpF)
StopUp == Act(StopUpG, StopUpF)

Step ==
    \/ Replay
    \/ RecursionStop
    \/ Resume
    \/ YieldSelf
    \/ SkipNonClass
    \/ EnterBase
    \/ ContinueInner
    \/ Finish
    \/ YieldUp
    \/ StopUp

Next == ClientStart \/ ClientNext \/ ClientAbandon \/ Step

Spec == Init /\ [][Next]_vars

\* ------------------------------------------------- properties of py__mro__
NoDup(s) == \A i, j \in DOMAIN s : i # j => s[i] # s[j]

IsClassValue(v) == v \in ClassIds

\* the elements of c's mro() materialized so far
Materialized(s, c) == SelectSeq(s.memo[c], LAMBDA x : x # RecursionSentinel)

\* the classes the bases of c infer to, in order
BaseClasses(G, c) == SelectSeq(Concat(py__bases__(G[c])), IsClassValue)

RECURSIVE ReachWithin(_, _, _)
\* the classes reached from the set S by at most n base edges
ReachWithin(G, S, n) ==
    IF n = 0 THEN S
    ELSE ReachWithin(G, S \cup UNION {Range(BaseClasses(G, c)) : c \in S}, n - 1)

Ancestors(G, c) == ReachWithin(G, Range(BaseClasses(G, c)), NumClasses + 1)

OnCycle(G, c) == c \in Ancestors(G, c)

Acyclic(G) == \A c \in ClassIds : ~OnCycle(G, c)

RECURSIVE FirstOccurrences(_, _)
FirstOccurrences(s, seen) ==
    IF s = <<>> THEN <<>>
    ELSE IF Head(s) \in seen THEN FirstOccurrences(Tail(s), seen)
    ELSE <<Head(s)>> \o FirstOccurrences(Tail(s), seen \cup {Head(s)})

RECURSIVE RefMro(_, _, _)
\* the reference linearization, to depth d: the class, then the linearizations
\* of the classes its bases infer to, first occurrences only
RefMro(G, c, d) ==
    IF d = 0 THEN <<c>>
    ELSE LET bs == BaseClasses(G, c)
         IN FirstOccurrences(
                <<c>> \o Concat([i \in DOMAIN bs |-> RefMro(G, bs[i], d - 1)]), {})

Busy == m.pc \notin {"idle", "top"}

\* the number of values the bases of all classes infer to
RECURSIVE TotalFlat(_, _)
TotalFlat(G, S) ==
    IF S = {} THEN 0
    ELSE LET c == CHOOSE x \in S : TRUE
         IN Len(FlatBases(G, c)) + TotalFlat(G, S \ {c})

StepBound(G) == 6 * (1 + TotalFlat(G, ClassIds)) * (NumClasses + 3)

\* C2: no mro() sequence, materialized in the cache or handed to a caller,
\* holds a class twice
C2_MroHasNoDuplicate ==
    /\ NoDup(m.q.result)
    /\ \A c \in ClassIds : NoDup(Materialized(m, c))

\* a completed mro() of a class that names the same base class twice
C2_Witness ==
    /\ m.q.done
    /\ ~NoDup(BaseClasses(classes, m.q.target))
    /\ Len(m.q.result) >= 2

\* C3: on an acyclic class graph a completed mro() is the reference sequence
C3_MroIsDepthFirstFirstOccurrence ==
    (m.q.done /\ Acyclic(classes))
        => m.q.result = RefMro(classes, m.q.target, NumClasses + 1)

\* D(B, C), B(), C(): the completed mro() of D is [D, B, object, C]
C3_Witness ==
    /\ m.q.done
    /\ Acyclic(classes)
    /\ m.q.target = 1
    /\ m.q.result = <<1, 2, Root, 3>>

\* some step of the computation is possible
CanStep(G, s) ==
    \/ ReplayG(G, s) \/ RecursionStopG(G, s) \/ ResumeG(G, s)
    \/ YieldSelfG(G, s) \/ SkipNonClassG(G, s) \/ EnterBaseG(G, s)
    \/ ContinueInnerG(G, s) \/ FinishG(G, s)
    \/ YieldUpG(G, s) \/ StopUpG(G, s)

View(s) ==
    [memo |-> s.memo, stack |-> s.stack, pc |-> s.pc, q |-> s.q,
     mro |-> [c \in ClassIds |-> s.frame[c].mro],
     st |-> [c \in ClassIds |-> s.frame[c].st],
     wi |-> [c \in ClassIds |-> s.frame[c].wi]]

\* C10: a value without py__mro__ is passed over: the computation goes on as
\* on the class graph in which that value was never inferred
C10_NonClassBaseIsSkipped == View(m) = View(sm)

\* X(f, B): f is no class, and the completed mro() of X holds B
C10_Witness ==
    /\ m.q.done
    /\ \E i, j \in DOMAIN FlatBases(classes, m.q.target) :
          /\ i < j
          /\ FlatBases(classes, m.q.target)[i] = NotAClass
          /\ FlatBases(classes, m.q.target)[j] \in SourceClasses \ {m.q.target}
          /\ FlatBases(classes, m.q.target)[j] \in Range(m.q.result)

\* ------------------------------------------------------------- py__bases__
MaxArgs == 3

\* what the lazy value of an argument infers to
LazySamples == {<<>>, <<1>>, <<NotAClass>>, <<1, 2>>}

\* an argument of a class declaration: positional, keyword, * or **
DeclArgs ==
    {KwArg(k, vs) : k \in {NoKey, "metaclass", "other"}, vs \in LazySamples}
    \cup {[key |-> NoKey, stars |-> n, values |-> vs] : n \in 1..2, vs \in LazySamples}

\* the declarations of classes with at most n arguments; builtins.object
\* itself takes none
Decls(n) ==
    {RootDecl} \cup
    {d \in [name : {"object", "C"}, in_builtins : BOOLEAN,
            arglist : UNION {[1..k -> DeclArgs] : k \in 0..n}] :
        ~IsRootDecl(d)}

\* the state of the variables a specification leaves alone
Idle ==
    /\ classes = [c \in ClassIds |->
                    IF c = Root THEN RootDecl
                    ELSE [name |-> "C", in_builtins |-> FALSE, arglist |-> <<>>]]
    /\ m = InitMachine
    /\ sm = InitMachine
    /\ cache = EmptyCache

BasesInit ==
    /\ Idle
    /\ input \in [decl : Decls(MaxArgs)]
    /\ call = NoCall

\* the caller asks for the bases of the declared class
CallBases ==
    /\ call' = [op |-> "py__bases__", decl |-> input.decl,
                out |-> py__bases__(input.decl)]
    /\ UNCHANGED <<classes, m, sm, cache, input>>

BasesNext == CallBases

BasesSpec == BasesInit /\ [][BasesNext]_vars

IsPositional(a) == a.key = NoKey /\ a.stars = 0

\* the lazy values of the positional arguments of d, in declared order
DeclaredPositional(d) ==
    LET pos == SelectSeq(d.arglist, IsPositional)
    IN [i \in DOMAIN pos |-> pos[i].values]

\* C4: bases() is the lazy values of the positional arguments in declared
\* order, no keyword or starred argument among them; without positional
\* arguments it is the root alone, and empty for the root itself
C4_BasesArePositionalArguments ==
    call.op = "py__bases__" =>
        LET d == call.decl
            pos == DeclaredPositional(d)
        IN /\ pos # <<>> => call.out = pos
           /\ (pos = <<>> /\ ~(d.name = "object" /\ d.in_builtins))
                  => call.out = << <<Root>> >>
           /\ (pos = <<>> /\ d.name = "object" /\ d.in_builtins) => call.out = <<>>

\* class C(metaclass=M): the argument list holds a keyword only and bases() is
\* the root
C4_Witness ==
    /\ call.op = "py__bases__"
    /\ call.decl.name = "C"
    /\ Len(call.decl.arglist) = 1
    /\ call.decl.arglist[1].key = "metaclass"
    /\ call.decl.arglist[1].values = <<1>>
    /\ call.out = << <<Root>> >>

\* --------------------------------------------------------- get_metaclasses
\* lines 131-132: ClassMixin.is_class; other values answer False
is_class(v) == v \in ClassIds

\* inference_state_method_cache: the memo holds value v under key c
Store(memo, c, v) == [memo EXCEPT ![c] = [cached |-> TRUE, vals |-> v]]

\* mutant: the first base class decides, whatever it answers
NonEmpty_Always(values) == TRUE

\* lines 324 and 331: a ValueSet is true when it holds a value
NonEmpty(values) == values # NO_VALUES

RECURSIVE get_metaclasses(_, _, _)
RECURSIVE InheritedMetaclasses(_, _, _, _)
\* ClassValue.get_metaclasses under its cache: the result and the memo after
\* the call.  A key is memoized with the default before its value is computed,
\* so a call that re-enters the key is answered with the default.
get_metaclasses(G, memo, c) ==
    IF memo[c].cached THEN [vals |-> memo[c].vals, memo |-> memo]
    ELSE LET memo1 == Store(memo, c, NO_VALUES)
             args == _get_bases_arguments(G[c])
             mlazy == SelectKeys(unpack(args), "metaclass")
             metaclasses == {v \in Range(Concat(mlazy)) : is_class(v)}
         IN IF args # <<>> /\ NonEmpty(metaclasses)
            THEN [vals |-> metaclasses, memo |-> Store(memo1, c, metaclasses)]
            ELSE LET r == InheritedMetaclasses(G, memo1, FlatBases(G, c), 1)
                 IN [vals |-> r.vals, memo |-> Store(r.memo, c, r.vals)]

\* lines 327-333: the loop over the values of the bases, from the i-th on
InheritedMetaclasses(G, memo, vs, i) ==
    IF i > Len(vs) THEN [vals |-> NO_VALUES, memo |-> memo]
    ELSE IF ~is_class(vs[i]) THEN InheritedMetaclasses(G, memo, vs, i + 1)
    ELSE LET r == get_metaclasses(G, memo, vs[i])
         IN IF NonEmpty(r.vals) THEN r
            ELSE InheritedMetaclasses(G, r.memo, vs, i + 1)

MetaInit ==
    /\ classes \in Graphs({"bases", "keyword"}, MaxMetaEdges)
    /\ m = InitMachine
    /\ sm = InitMachine
    /\ cache = EmptyCache
    /\ input = [queries |-> 0]
    /\ call = NoCall

\* a caller asks for the metaclasses of a class
CallMetaclasses == \E c \in ClassIds :
    LET r == get_metaclasses(classes, cache, c)
    IN /\ input.queries < MaxQueries
       /\ input' = [queries |-> input.queries + 1]
       /\ call' = [op |-> "get_metaclasses", cls |-> c, out |-> r.vals]
       /\ cache' = r.memo
       /\ UNCHANGED <<classes, m, sm>>

MetaNext == CallMetaclasses

MetaSpec == MetaInit /\ [][MetaNext]_vars

IsMetaclassKeyword(a) == a.key = "metaclass" /\ a.stars = 0

\* the classes the metaclass keyword of c infers to
ExplicitMetaclasses(G, c) ==
    LET kw == SelectSeq(G[c].arglist, IsMetaclassKeyword)
    IN {v \in UNION {Range(kw[i].values) : i \in DOMAIN kw} : IsClassValue(v)}

\* what metaclasses() of class b answers now
MetaclassesNow(b) == get_metaclasses(classes, cache, b).vals

\* the metaclasses of c as C5 states them
StatedMetaclasses(c) ==
    LET explicit == ExplicitMetaclasses(classes, c)
        bs == BaseClasses(classes, c)
        having == {i \in DOMAIN bs : MetaclassesNow(bs[i]) # {}}
    IN IF explicit # {} THEN explicit
       ELSE IF having = {} THEN {}
       ELSE MetaclassesNow(bs[CHOOSE i \in having : \A j \in having : i <= j])

\* C5 as stated: metaclasses() is the explicit metaclasses, else those of the
\* first base class whose metaclasses() is non-empty, else empty
C5_Original ==
    call.op = "get_metaclasses" => call.out = StatedMetaclasses(call.cls)

\* C5 as amended: the same, on class graphs without an inheritance cycle
C5_MetaclassesOfFirstBaseHavingSome ==
    (call.op = "get_metaclasses" /\ Acyclic(classes))
        => call.out = StatedMetaclasses(call.cls)

\* C(A, B), A without a metaclass, B(metaclass=M): metaclasses() of C passes
\* over A and answers {M}
C5_Witness ==
    /\ call.op = "get_metaclasses"
    /\ Acyclic(classes)
    /\ ExplicitMetaclasses(classes, call.cls) = {}
    /\ Len(BaseClasses(classes, call.cls)) = 2
    /\ MetaclassesNow(BaseClasses(classes, call.cls)[1]) = {}
    /\ ExplicitMetaclasses(classes, BaseClasses(classes, call.cls)[2]) # {}
    /\ call.out = ExplicitMetaclasses(classes, BaseClasses(classes, call.cls)[2])

\* ------------------------------------------------------------- ClassFilter
NumScopes == 4
MaxNameLen == 5
MaxNames == 2

\* None, where a scope is expected
NoScope == 0
\* the module, the scope that has no parent scope
Module == 1
\* the class context of the filter, an object that is no tree node
ParentContext == -1

Scopes == 1..NumScopes

\* the parent scope of every scope: the module has none, every other scope
\* lies in a scope that starts before it
ScopeTrees ==
    {t \in [Scopes -> {NoScope} \cup Scopes] :
        /\ t[Module] = NoScope
        /\ \A n \in Scopes \ {Module} : t[n] # NoScope /\ t[n] < n}

get_cached_parent_scope(tree, node) == tree[node]

\* mutant: the origin scope itself is compared, its enclosing scopes are not
_equals_origin_scope_NoWalk(f, node) == node # NoScope /\ node = f.parser_scope

RECURSIVE _equals_origin_scope(_, _)
\* ClassFilter._equals_origin_scope, the loop from node on
_equals_origin_scope(f, node) ==
    IF node = NoScope THEN FALSE
    ELSE IF node = f.parser_scope \/ node = ParentContext THEN TRUE
    ELSE _equals_origin_scope(f, get_cached_parent_scope(f.tree, node))

\* a class body filter: the tree it reads, the class it filters, the scope
\* the lookup comes from
ClassFilters ==
    [tree : ScopeTrees, parser_scope : Scopes \ {Module},
     origin_scope : {NoScope} \cup Scopes]

\* str.startswith, str.endswith, the operator in of str
startswith(str, prefix) ==
    Len(str) >= Len(prefix) /\ SubSeq(str, 1, Len(prefix)) = prefix
endswith(str, suffix) ==
    Len(str) >= Len(suffix)
    /\ SubSeq(str, Len(str) - Len(suffix) + 1, Len(str)) = suffix
Contains(str, sub) ==
    \E i \in 0..(Len(str) - Len(sub)) : SubSeq(str, i + 1, i + Len(sub)) = sub

NameValues == UNION {[1..n -> {"_", "x"}] : n \in 1..MaxNameLen}

\* the source text of annotations
Annotations ==
    {<<"i", "n", "t">>,
     <<"C", "l", "a", "s", "s", "V", "a", "r", "[", "i", "n", "t", "]">>,
     <<"t", "y", "p", "i", "n", "g", ".", "C", "l", "a", "s", "s", "V", "a", "r">>,
     <<"C", "l", "a", "s", "s", "v", "a", "r">>,
     <<"M", "y", "C", "l", "a", "s", "s", "V", "a", "r", "s">>}

\* name.get_definition(): None, or the statement that defines the name with
\* the type of its second child
NoDefinition == [type |-> "None", child1 |-> "None", annotation |-> <<>>]
Definitions ==
    {NoDefinition,
     [type |-> "funcdef", child1 |-> "name", annotation |-> <<>>],
     [type |-> "expr_stmt", child1 |-> "operator", annotation |-> <<>>]}
    \cup {[type |-> "expr_stmt", child1 |-> "annassign", annotation |-> a] :
            a \in Annotations}

Names == [value : NameValues, definition : Definitions]

\* the names of a class body that is filtered as a whole
BodyNames ==
    [value : {<<"_", "_", "x">>, <<"x">>},
     definition : {[type |-> "expr_stmt", child1 |-> "operator", annotation |-> <<>>],
                   [type |-> "expr_stmt", child1 |-> "annassign", annotation |-> <<"i", "n", "t">>],
                   [type |-> "expr_stmt", child1 |-> "annassign", annotation |-> <<"C", "l", "a", "s", "s", "V", "a", "r", "[", "i", "n", "t", "]">>]}]

\* mutant: the annotations are looked at when the lookup comes from an instance
HiddenAnnotation_FromInstance(name, from_instance) ==
    /\ from_instance
    /\ name.definition.type = "expr_stmt"
    /\ name.definition.child1 = "annassign"
    /\ ~Contains(name.definition.annotation, <<"C", "l", "a", "s", "s", "V", "a", "r">>)

\* lines 112-119: the filter for ClassVar variables answers False
HiddenAnnotation(name, from_instance) ==
    /\ ~from_instance
    /\ name.definition.type = "expr_stmt"
    /\ name.definition.child1 = "annassign"
    /\ ~Contains(name.definition.annotation, <<"C", "l", "a", "s", "s", "V", "a", "r">>)

\* ClassFilter._access_possible
_access_possible(f, name, from_instance) ==
    IF HiddenAnnotation(name, from_instance) THEN FALSE
    ELSE \/ ~startswith(name.value, <<"_", "_">>)
         \/ endswith(name.value, <<"_", "_">>)
         \/ _equals_origin_scope(f, f.origin_scope)

\* ClassFilter._filter, on the names the filter of the parent class lets pass
_filter(f, names, from_instance) ==
    SelectSeq(names, LAMBDA name : _access_possible(f, name, from_instance))

AccessInit ==
    /\ Idle
    /\ call = NoCall
    /\ \/ input \in [op : {"_access_possible"}, filter : ClassFilters,
                     names : [1..1 -> Names], from_instance : BOOLEAN]
       \/ input \in [op : {"_filter"}, filter : ClassFilters,
                     names : UNION {[1..n -> BodyNames] : n \in 0..MaxNames},
                     from_instance : BOOLEAN]

\* the filter is asked whether one name is accessible
AccessPossible ==
    /\ input.op = "_access_possible"
    /\ call' = [op |-> input.op,
                out |-> _access_possible(input.filter, input.names[1],
                                         input.from_instance)]
    /\ UNCHANGED <<classes, m, sm, cache, input>>

\* the filter is applied to the names of a class body
FilterNames ==
    /\ input.op = "_filter"
    /\ call' = [op |-> input.op,
                out |-> _filter(input.filter, input.names, input.from_instance)]
    /\ UNCHANGED <<classes, m, sm, cache, input>>

AccessNext == AccessPossible \/ FilterNames

AccessSpec == AccessInit /\ [][AccessNext]_vars

Filtered == call.op \in {"_access_possible", "_filter"}

\* the name starts with two underscores and does not end with two
IsPrivate(v) ==
    /\ Len(v) >= 2 /\ v[1] = "_" /\ v[2] = "_"
    /\ ~(v[Len(v) - 1] = "_" /\ v[Len(v)] = "_")

RECURSIVE ScopesWithin(_, _, _)
\* the scopes of S and the scopes nested in them, n levels deep
ScopesWithin(tree, S, n) ==
    IF n = 0 THEN S
    ELSE ScopesWithin(tree, S \cup {x \in Scopes : tree[x] \in S}, n - 1)

\* the lookup comes from the class of the filter or from a scope within it
OriginInside(f) ==
    f.origin_scope \in ScopesWithin(f.tree, {f.parser_scope}, NumScopes)

IsAnnotated(name) ==
    name.definition.type = "expr_stmt" /\ name.definition.child1 = "annassign"

HasMarker(name) == Contains(name.definition.annotation, <<"C", "l", "a", "s", "s", "V", "a", "r">>)

\* the call lets the name pass
Kept(name) ==
    IF call.op = "_access_possible" THEN call.out ELSE name \in Range(call.out)

\* C6: a name __x is kept out when the lookup comes from no scope or from
\* outside the class, and let pass when it comes from the class or a scope
\* within it; a name __x__ or x is let pass whatever the origin (a name the
\* filter for ClassVar variables hides stays hidden)
C6_ManglingFollowsOriginScope ==
    Filtered =>
        \A i \in DOMAIN input.names :
            LET name == input.names[i]
                hidden == HiddenAnnotation(name, input.from_instance)
            IN IF IsPrivate(name.value)
               THEN /\ ~OriginInside(input.filter) => ~Kept(name)
                    /\ (OriginInside(input.filter) /\ ~hidden) => Kept(name)
               ELSE Kept(name) <=> ~hidden

\* __x is asked for from a function nested in a method of the class, and let
\* pass
C6_Witness ==
    /\ call.op = "_access_possible"
    /\ input.names[1].value = <<"_", "_", "x">>
    /\ input.filter.origin_scope = NumScopes
    /\ input.filter.tree[NumScopes] = NumScopes - 1
    /\ input.filter.tree[NumScopes - 1] = input.filter.parser_scope
    /\ call.out = TRUE

\* C7 as stated: the annotations are looked at only when the lookup comes
\* from an instance
C7_Original ==
    Filtered =>
        \A i \in DOMAIN input.names :
            LET name == input.names[i]
                mangled == IsPrivate(name.value) /\ ~OriginInside(input.filter)
            IN IF input.from_instance /\ IsAnnotated(name) /\ ~HasMarker(name)
               THEN ~Kept(name)
               ELSE Kept(name) <=> ~mangled

\* C7 as amended: the annotations are looked at only when the lookup does not
\* come from an instance: then an annotated assignment without the marker
\* ClassVar is kept out; a lookup from an instance keeps no name out for its
\* annotation
C7_ClassVarHeuristicOnClassAccess ==
    Filtered =>
        \A i \in DOMAIN input.names :
            LET name == input.names[i]
                mangled == IsPrivate(name.value) /\ ~OriginInside(input.filter)
            IN IF ~input.from_instance /\ IsAnnotated(name) /\ ~HasMarker(name)
               THEN ~Kept(name)
               ELSE Kept(name) <=> ~mangled

\* x: int = 0 and y: ClassVar[int] = 0, looked up on the class: the first is
\* kept out, the second let pass
C7_Witness ==
    /\ call.op = "_filter"
    /\ ~input.from_instance
    /\ Len(input.names) = 2
    /\ input.names[1].value = <<"x">>
    /\ input.names[1].definition.annotation = <<"i", "n", "t">>
    /\ input.names[2].definition.annotation = <<"C", "l", "a", "s", "s", "V", "a", "r", "[", "i", "n", "t", "]">>
    /\ call.out = <<input.names[2]>>

\* --------------------------------------------------------- define_generics
MaxTypeArgs == 2
MaxTypeVars == 2

TypeVarNames == {"T", "T_co", "U"}

\* the values a type variable is bound to
Bindings == {{"int"}, {"str"}}

\* an argument of the class declaration: its stars and the type variables
\* find_unknown_type_vars finds in it, by name
TypeArgs ==
    [stars : 0..1,
     type_vars : UNION {[1..n -> TypeVarNames] : n \in 0..MaxTypeVars}]

\* get_super_arglist: None, or up to k arguments
NoArglist == [present |-> FALSE, args |-> <<>>]
TypeArglists(k) ==
    {NoArglist} \cup
    [present : {TRUE}, args : UNION {[1..n -> TypeArgs] : n \in 1..k}]

\* a dict from names of type variables to values
TypeVarDicts ==
    UNION {[keys -> Bindings] : keys \in SUBSET TypeVarNames}

RECURSIVE AppendNew(_, _)
\* lines 246-249: the elements of xs that found does not hold are appended
AppendNew(found, xs) ==
    IF xs = <<>> THEN found
    ELSE IF Head(xs) \in Range(found) THEN AppendNew(found, Tail(xs))
    ELSE AppendNew(Append(found, Head(xs)), Tail(xs))

RECURSIVE FoundTypeVars(_, _)
\* lines 241-249: the loop over the arguments
FoundTypeVars(found, args) ==
    IF args = <<>> THEN found
    ELSE IF Head(args).stars > 0 THEN FoundTypeVars(found, Tail(args))
    ELSE FoundTypeVars(AppendNew(found, Head(args).type_vars), Tail(args))

\* ClassValue.list_type_vars
list_type_vars(arglist) ==
    IF ~arglist.present THEN <<>> ELSE FoundTypeVars(<<>>, arglist.args)

\* dict.get(key, default)
Get(dict, key, default) == IF key \in DOMAIN dict THEN dict[key] ELSE default

\* lines 302-303: remap_type_vars
remap_type_vars(arglist, type_var_dict) ==
    LET tvs == list_type_vars(arglist)
    IN [i \in DOMAIN tvs |-> Get(type_var_dict, tvs[i], NO_VALUES)]

\* ClassValue.define_generics: the class itself, or a GenericClass of the
\* class and a TupleGenericManager
define_generics(arglist, type_var_dict) ==
    IF DOMAIN type_var_dict # {}
    THEN [generic |-> TRUE, manager |-> remap_type_vars(arglist, type_var_dict)]
    ELSE [generic |-> FALSE, manager |-> <<>>]

GenericsInit ==
    /\ Idle
    /\ call = NoCall
    /\ input \in [arglist : TypeArglists(MaxTypeArgs), type_var_dict : TypeVarDicts]

\* the caller binds the type variables of the class
DefineGenerics ==
    /\ call' = [op |-> "define_generics",
                out |-> define_generics(input.arglist, input.type_var_dict)]
    /\ UNCHANGED <<classes, m, sm, cache, input>>

GenericsNext == DefineGenerics

GenericsSpec == GenericsInit /\ [][GenericsNext]_vars

\* the name under which the declaring class knows a type variable: T_co is
\* the covariant T
DeclaredAs(type_var) == IF type_var = "T_co" THEN "T" ELSE type_var

\* the binding that applies to a type variable: one under its own name, or one
\* under the name it is declared as
BindingFor(dict, type_var) ==
    IF type_var \in DOMAIN dict THEN dict[type_var]
    ELSE Get(dict, DeclaredAs(type_var), NO_VALUES)

\* C8: the manager holds one entry for each of the type_vars() of the class,
\* in their order, each the binding that applies to the variable: with T bound
\* to {int}, T_co is bound to {int}
C8_GenericRemap ==
    (call.op = "define_generics" /\ DOMAIN input.type_var_dict # {}) =>
        LET tvs == list_type_vars(input.arglist)
        IN /\ call.out.generic
           /\ Len(call.out.manager) = Len(tvs)
           /\ \A i \in DOMAIN tvs :
                  call.out.manager[i] = BindingFor(input.type_var_dict, tvs[i])

\* ------------------------------------------------------------- get_filters
MaxMroTail == 2
MaxPluginFilters == 2
MaxNativeFilters == 2
MaxInstanceFilters == 4

\* the builtin class type
TypeClass == NumClasses + 1
\* classes that are introspected, not parsed
CompiledObjects == {NumClasses + 2, NumClasses + 3}

MroEntries == ClassIds \cup {TypeClass} \cup CompiledObjects

\* line 194: isinstance(cls, compiled.CompiledObject)
IsCompiled(cls) == cls \in CompiledObjects

FilterOf(kind, cls, ix, origin_scope, is_instance) ==
    [kind |-> kind, cls |-> cls, ix |-> ix, origin_scope |-> origin_scope,
     is_instance |-> is_instance]

\* get_metaclass_filters: the n filters the plugins provide
get_metaclass_filters(n) ==
    [i \in 1..n |-> FilterOf("metaclass", Root, i, NoScope, FALSE)]

\* the n filters of an introspected class
CompiledFilters(cls, is_instance, n) ==
    [i \in 1..n |-> FilterOf("native", cls, i, NoScope, is_instance)]

\* lines 198-202: the filter of the body of cls
ClassFilterOf(cls, origin_scope, is_instance) ==
    FilterOf("class_body", cls, 1, origin_scope, is_instance)

\* the n filters of an instance of type
InstanceFilters(n) ==
    [i \in 1..n |-> FilterOf("type_instance", TypeClass, i, NoScope, TRUE)]

\* mutant: the first filter of the instance of type
ThirdFilter_First(filters) == filters[1]

\* lines 215-217: next, next, yield next
ThirdFilter(filters) == filters[3]

\* ClassMixin.get_filters, for the class x.self: its metaclasses() and mro(),
\* and what its collaborators provide
get_filters(x) ==
    LET metaPart ==
            IF x.metaclasses # NO_VALUES THEN get_metaclass_filters(x.plugin)
            ELSE <<>>
        mroPart ==
            Concat([i \in DOMAIN x.mro |->
                IF IsCompiled(x.mro[i])
                THEN CompiledFilters(x.mro[i], x.is_instance, x.native)
                ELSE <<ClassFilterOf(x.mro[i], x.origin_scope, x.is_instance)>>])
        typePart ==
            IF ~x.is_instance /\ TypeClass # x.self
            THEN <<ThirdFilter(InstanceFilters(x.instance))>>
            ELSE <<>>
    IN metaPart \o mroPart \o typePart

\* the sequences mro() may give for a class: the class, then classes that
\* differ from it and from each other
MroTails(self) ==
    {t \in UNION {[1..n -> MroEntries \ {self}] : n \in 0..MaxMroTail} : NoDup(t)}

FiltersInit ==
    /\ Idle
    /\ call = NoCall
    /\ \E self \in SourceClasses \cup {TypeClass} :
          input \in [self : {self},
                     mro : {<<self>> \o t : t \in MroTails(self)},
                     metaclasses : {NO_VALUES, {TypeClass}},
                     plugin : 0..MaxPluginFilters,
                     native : 1..MaxNativeFilters,
                     instance : 3..MaxInstanceFilters,
                     origin_scope : {NoScope, Module},
                     is_instance : BOOLEAN]

\* the caller iterates the filters of the class
GetFilters ==
    /\ call' = [op |-> "get_filters", out |-> get_filters(input)]
    /\ UNCHANGED <<classes, m, sm, cache, input>>

FiltersNext == GetFilters

FiltersSpec == FiltersInit /\ [][FiltersNext]_vars

\* the number of filters an entry of mro() gives
FiltersOfEntry(cls) == IF cls \in CompiledObjects THEN input.native ELSE 1

RECURSIVE FiltersOfEntries(_)
\* the number of filters the entries of a part of mro() give
FiltersOfEntries(s) ==
    IF s = <<>> THEN 0 ELSE FiltersOfEntry(Head(s)) + FiltersOfEntries(Tail(s))

\* the filters come in three parts: nm metaclass filters, then for each entry
\* of mro() its native filters or one class body filter, then extra filters
\* of an instance of type, the third one if any
InThreeParts(out, nm, extra) ==
    LET body == SubSeq(out, nm + 1, Len(out) - extra)
        start(i) == FiltersOfEntries(SubSeq(input.mro, 1, i - 1))
    IN /\ Len(out) = nm + FiltersOfEntries(input.mro) + extra
       /\ \A i \in 1..nm : out[i].kind = "metaclass" /\ out[i].ix = i
       /\ \A i \in DOMAIN input.mro :
              \A j \in 1..FiltersOfEntry(input.mro[i]) :
                  LET f == body[start(i) + j]
                  IN /\ f.cls = input.mro[i]
                     /\ f.ix = j
                     /\ f.is_instance = input.is_instance
                     /\ f.kind = IF input.mro[i] \in CompiledObjects
                                 THEN "native" ELSE "class_body"
                     /\ f.kind = "class_body" => f.origin_scope = input.origin_scope
       /\ extra = 1 => (Last(out).kind = "type_instance" /\ Last(out).ix = 3)

MetaclassFilterCount == IF input.metaclasses = {} THEN 0 ELSE input.plugin

\* C9 as stated: a filter of an instance of type is added whenever
\* is_instance is false
C9_Original ==
    call.op = "get_filters" =>
        InThreeParts(call.out, MetaclassFilterCount,
                     IF input.is_instance THEN 0 ELSE 1)

\* C9 as amended: a filter of an instance of type is added whenever
\* is_instance is false and the class is not type itself
C9_FiltersInOrder ==
    call.op = "get_filters" =>
        InThreeParts(call.out, MetaclassFilterCount,
                     IF input.is_instance \/ input.self = TypeClass THEN 0 ELSE 1)

\* a class with a metaclass and an introspected ancestor, looked up on the
\* class: metaclass filters, a class body filter, native filters, the filter
\* of type
C9_Witness ==
    /\ call.op = "get_filters"
    /\ ~input.is_instance
    /\ input.self # TypeClass
    /\ input.metaclasses # {}
    /\ input.plugin = 2
    /\ input.native = 2
    /\ Len(input.mro) = 3
    /\ input.mro[2] \in CompiledObjects
    /\ input.mro[3] = Root
    /\ Len(call.out) = 7

=============================================================================
